---- MODULE Spec2Model ----
(***************************************************************************)
(* The retrieval-augmented generation pipeline of the contract and policy  *)
(* assistant: ingestion (mask, embed, tag, upsert), contract analysis      *)
(* (smart context, generation, coercion into ContractSchema) and Q&A       *)
(* (retrieve, threshold filter, generation).                               *)
(*                                                                         *)
(* Python str values are TLA+ strings: TLC evaluates Len, \o and SubSeq on *)
(* them, so slicing, joining and substring search are computed character   *)
(* by character as Python does.  Python None, str, int, list, dict and the *)
(* pydantic records are values tagged with their type in field t.          *)
(***************************************************************************)
EXTENDS Integers, Sequences, FiniteSets, TLC

VARIABLES
    disk,        \* docs/: file name -> the chunks the splitter yields for it
    collection,  \* the Chroma collection, entries in the store's own order
    pipe,        \* RAGService.pipe: TRUE when the LLM loaded, FALSE for None
    pydantic,    \* major version of the installed pydantic (1 or 2)
    ingest_log,  \* the steps of ingest_documents' last run, in order
    resp,        \* the request being answered: its result and what it issued
    _model,      \* embeddings._model: 0 for None, n for the n-th model built
    constructed, \* how many SentenceTransformer models the process has built
    llm_loads,   \* how many times RAGService._load_llm has run
    worker       \* the threads of the server's pool: where each stands in
                 \* embed_texts and the embedding model it holds

vars ==
    <<disk, collection, pipe, pydantic, ingest_log, resp,
      _model, constructed, llm_loads, worker>>

\* The models the serving process holds and the threads that use them.
models == <<_model, constructed, llm_loads, worker>>

----------------------------------------------------------------------------
(* Bounds of the model *)

\* chunks of the contract file on disk
MaxChunks == 4
\* fragments concatenated into one text of the tagging specification
MaxFrags == 2
\* threads of the server's pool that answer requests at the same time
MaxWorkers == 2

----------------------------------------------------------------------------
(* Python string operations *)

Min(a, b) == IF a <= b THEN a ELSE b

\* s[:n]
Slice(s, n) == IF Len(s) <= n THEN s ELSE SubSeq(s, 1, n)

\* needle in hay
Contains(needle, hay) ==
    \E i \in 1..(Len(hay) - Len(needle) + 1) :
        SubSeq(hay, i, i + Len(needle) - 1) = needle

RECURSIVE Join(_, _)
\* sep.join(items)
Join(sep, items) ==
    IF items = <<>> THEN ""
    ELSE IF Len(items) = 1 THEN items[1]
    ELSE items[1] \o sep \o Join(sep, Tail(items))

RECURSIVE Repeat(_, _)
\* s * n
Repeat(s, n) ==
    IF n = 0 THEN ""
    ELSE IF n = 1 THEN s
    ELSE Repeat(s, n \div 2) \o Repeat(s, n - (n \div 2))

Upper == "ABCDEFGHIJKLMNOPQRSTUVWXYZ"
LowerLetters == "abcdefghijklmnopqrstuvwxyz"

LowerChar(c) ==
    IF \E i \in 1..Len(Upper) : SubSeq(Upper, i, i) = c
    THEN LET i == CHOOSE k \in 1..Len(Upper) : SubSeq(Upper, k, k) = c
         IN SubSeq(LowerLetters, i, i)
    ELSE c

RECURSIVE Lower(_)
\* s.lower()
Lower(s) ==
    IF Len(s) = 0 THEN ""
    ELSE IF Len(s) = 1 THEN LowerChar(s)
    ELSE Lower(SubSeq(s, 1, Len(s) \div 2))
             \o Lower(SubSeq(s, (Len(s) \div 2) + 1, Len(s)))

Digits == "0123456789"

RECURSIVE IntStr(_)
\* str(n) for an int n >= 0
IntStr(n) ==
    IF n < 10 THEN SubSeq(Digits, n + 1, n + 1)
    ELSE IntStr(n \div 10) \o SubSeq(Digits, (n % 10) + 1, (n % 10) + 1)

----------------------------------------------------------------------------
(* ingest.py: clause tagging *)

CLAUSE_KEYWORDS ==
<<
      [clause |-> "termination",
       keywords |-> <<"terminate", "termination", "cancel", "cancellation", "rescind", "end of agreement", "convenience", "breach", "notice period">>],
      [clause |-> "effective_date",
       keywords |-> <<"effective date", "commencement date", "start date", "dated as of", "made as of", "initial term", "expiration date">>],
      [clause |-> "renewal",
       keywords |-> <<"renew", "renewal", "extension", "extend", "automatic renewal", "successive term">>],
      [clause |-> "parties",
       keywords |-> <<"parties", "between", "among", "entered into by", "buyer", "seller", "provider", "customer", "licensor", "licensee", "grantor", "grantee", "landlord", "tenant", "contractor">>],
      [clause |-> "governing_law",
       keywords |-> <<"governing law", "jurisdiction", "laws of", "venue", "courts of", "construed in accordance", "dispute resolution", "arbitration">>],
      [clause |-> "confidentiality",
       keywords |-> <<"confidential", "confidentiality", "non-disclosure", "secrecy", "proprietary information", "trade secret">>],
      [clause |-> "payment_terms",
       keywords |-> <<"payment", "fees", "invoice", "due date", "remittance", "pricing", "compensation", "royalties", "minimum commitment">>],
      [clause |-> "liability",
       keywords |-> <<"liability", "indemnification", "damages", "limitation of liability", "hold harmless", "cap on liability", "liquidated damages", "warranty">>],
      [clause |-> "license_ip",
       keywords |-> <<"license grant", "intellectual property", "ownership", "work for hire", "assignment", "patent", "trademark", "copyright", "source code">>],
      [clause |-> "restrictive_covenants",
       keywords |-> <<"non-compete", "exclusivity", "non-solicit", "competitive restriction", "most favored nation", "territory">>]
   >>

\* any(kw in text_lower for kw in keywords)
AnyKeyword(keywords, text_lower) ==
    \E k \in 1..Len(keywords) : Contains(keywords[k], text_lower)

DetectFirstOnly(text) ==
    LET text_lower == Lower(text)
        hit(e) == AnyKeyword(e.keywords, text_lower)
        detected == SelectSeq(CLAUSE_KEYWORDS, hit)
    IN  IF detected # <<>> THEN detected[1].clause ELSE "general"

detect_clause_types(text) ==
    LET text_lower == Lower(text)
        hit(e) == AnyKeyword(e.keywords, text_lower)
        detected == SelectSeq(CLAUSE_KEYWORDS, hit)
    IN  IF detected # <<>>
        THEN Join(",", [i \in 1..Len(detected) |-> detected[i].clause])
        ELSE "general"

----------------------------------------------------------------------------
(* pii.py: masking.  nlp(text).ents is spaCy's answer; a chunk on disk      *)
(* carries it as ents, spans [start_char, end_char) with their label_.      *)

MaskedLabels == {"PERSON", "ORG", "GPE"}

RECURSIVE SortReverse(_)
\* replacements.sort(key=lambda x: x[0], reverse=True)
SortReverse(reps) ==
    IF reps = <<>> THEN <<>>
    ELSE LET m == CHOOSE i \in 1..Len(reps) :
                      /\ \A j \in 1..Len(reps) : reps[j].start_char <= reps[i].start_char
                      /\ \A j \in 1..(i - 1) : reps[j].start_char < reps[i].start_char
             rest == [j \in 1..(Len(reps) - 1) |-> IF j < m THEN reps[j] ELSE reps[j + 1]]
         IN  <<reps[m]>> \o SortReverse(rest)

RECURSIVE ApplyReplacements(_, _)
\* result = result[:start] + label + result[end:]
ApplyReplacements(result, reps) ==
    IF reps = <<>> THEN result
    ELSE LET r == reps[1]
             cut == SubSeq(result, 1, Min(r.start_char, Len(result)))
                        \o "[" \o r.label_ \o "]"
                        \o SubSeq(result, r.end_char + 1, Len(result))
         IN  ApplyReplacements(cut, Tail(reps))

mask_pii(chunk) ==
    IF chunk.text = "" THEN ""
    ELSE LET keep(e) == e.label_ \in MaskedLabels
             replacements == SortReverse(SelectSeq(chunk.ents, keep))
         IN  ApplyReplacements(chunk.text, replacements)

----------------------------------------------------------------------------
(* ingest.py: the documents on disk and ingest_documents *)

\* RecursiveCharacterTextSplitter(chunk_size=1000, ...)
chunk_size == 1000

PolicyFile == "policy.pdf"
ContractFile == "contract.pdf"
\* a name no file on disk has
MissingFile == "missing.pdf"

\* policy_files + contract_files, with the doc_type the path gives each
all_files ==
    << [file_name |-> PolicyFile, doc_type |-> "policy"],
       [file_name |-> ContractFile, doc_type |-> "contract"] >>

NoticeSentence == "This Agreement may be terminated upon 30 days notice"

\* A short chunk holding only the notice sentence.
NoticeChunk == [text |-> NoticeSentence, ents |-> <<>>]

LongHead == "The Seller may cancel and limits liability as of the Effective Date."

\* A chunk of full chunk_size that triggers four clause types.
LongChunk ==
    [text |-> LongHead \o Repeat(".", chunk_size - Len(LongHead)), ents |-> <<>>]

\* A short chunk that triggers termination only, in which spaCy finds a PERSON.
SignedChunk ==
    [text |-> "Signed by Bob Stone, who may cancel.",
     ents |-> << [start_char |-> 10, end_char |-> 19, label_ |-> "PERSON"] >>]

\* The chunk of the policy file; spaCy finds an ORG in it.
PolicyChunk ==
    [text |-> "Acme Corp employees keep records confidential.",
     ents |-> << [start_char |-> 0, end_char |-> 9, label_ |-> "ORG"] >>]

ContractChunks == {NoticeChunk, LongChunk, SignedChunk}

SeqsUpTo(S, n) == UNION {[1..k -> S] : k \in 0..n}

\* Pieces of text, some a trigger phrase only once joined to another, some
\* in capitals.
Fragments ==
    {"Termin", "ATE ", "be", "tween ", "The PARTIES ", "shall Cancel ",
     "on reasonable terms ", "Renew", "al of term", "governing ", "Law "}

\* The texts of the tagging specification: up to MaxFrags fragments joined.
TagTexts == {Join("", fs) : fs \in SeqsUpTo(Fragments, MaxFrags) \ {<<>>}}

TagChunks == {[text |-> t, ents |-> <<>>] : t \in TagTexts}

\* Every chunk a disk of the model holds.
AllChunks == ContractChunks \cup {PolicyChunk} \cup TagChunks

\* The states of docs/ the analysis specification starts from.
Disks ==
    { [f \in {PolicyFile, ContractFile} |->
          IF f = PolicyFile THEN <<PolicyChunk>> ELSE cs] :
      cs \in SeqsUpTo(ContractChunks, MaxChunks) }

\* The disk of the specifications that vary the requests, not the documents.
FixedDisk ==
    [f \in {PolicyFile, ContractFile} |->
        IF f = PolicyFile THEN <<PolicyChunk>> ELSE <<NoticeChunk, SignedChunk>>]

\* The disk of the coercion specification.
OneChunkDisk ==
    [f \in {PolicyFile, ContractFile} |->
        IF f = PolicyFile THEN <<PolicyChunk>> ELSE <<NoticeChunk>>]

\* The disks of the tagging specification: the contract is one chunk of text.
TagDisks ==
    { [f \in {PolicyFile, ContractFile} |->
          IF f = PolicyFile THEN <<PolicyChunk>> ELSE <<c>>] : c \in TagChunks }

\* ids = [f"{file_name}_{i}" for i in range(len(chunks))]
ChunkId(file_name, i) == file_name \o "_" \o IntStr(i)

\* clause_tags = detect_clause_types(chunk), tabulated once over the masked
\* texts of the chunks the model's disks hold.
clause_tags ==
    [chunk \in {mask_pii(c) : c \in AllChunks} |-> detect_clause_types(chunk)]

\* The entries ingest_documents prepares for one file: chunks masked, then
\* embedded, then tagged; index i is 0-based as in enumerate(chunks).
FileEntries(file, raw_chunks) ==
    LET chunks == [i \in 1..Len(raw_chunks) |-> mask_pii(raw_chunks[i])]
    IN  [i \in 1..Len(chunks) |->
            [id |-> ChunkId(file.file_name, i - 1),
             document |-> chunks[i],
             metadata |-> [source |-> file.file_name,
                           type |-> file.doc_type,
                           chunk_index |-> i - 1,
                           clause_types |-> clause_tags[chunks[i]]]]]

RECURSIVE Upsert(_, _)
\* collection.upsert: an entry whose id is stored is overwritten in place,
\* a new id is added after the stored ones.
Upsert(coll, entries) ==
    IF entries = <<>> THEN coll
    ELSE LET e == entries[1]
             next == IF \E i \in 1..Len(coll) : coll[i].id = e.id
                     THEN [i \in 1..Len(coll) |->
                              IF coll[i].id = e.id THEN e ELSE coll[i]]
                     ELSE Append(coll, e)
         IN  Upsert(next, Tail(entries))

\* The loop body with tagging done ahead of embedding.
TagBeforeEmbed(raw_chunks) ==
    IF raw_chunks = <<>> THEN <<"extract">>
    ELSE <<"extract", "chunk", "mask", "tag", "embed", "upsert">>

\* What one file's pass through the loop body does in order; a file with no
\* text is left after extraction.
FileSteps(raw_chunks) ==
    IF raw_chunks = <<>> THEN <<"extract">>
    ELSE <<"extract", "chunk", "mask", "embed", "tag", "upsert">>

RECURSIVE IngestFiles(_, _, _)
\* for file_path in all_files: ...
IngestFiles(coll, files, d) ==
    IF files = <<>> THEN coll
    ELSE LET raw_chunks == d[files[1].file_name]
         IN  IF raw_chunks = <<>>
             THEN IngestFiles(coll, Tail(files), d)
             ELSE IngestFiles(Upsert(coll, FileEntries(files[1], raw_chunks)),
                              Tail(files), d)

\* No request is being answered.  A request's record holds its operation and
\* argument, the ids collection.get returned (in the order returned), the
\* sections and the context text built, the calls made to pipe, what
\* json.loads returned, the passages retrieve returned, and the result.
NoResp ==
    [op |-> "none", arg |-> "", fetched |-> <<>>, context_parts |-> <<>>,
     context_text |-> "", prompts |-> <<>>, loaded |-> [t |-> "None"],
     retrieved |-> <<>>, result |-> [t |-> "None"]]

ingest_documents ==
    /\ resp.op = "none"
    /\ collection' = IngestFiles(collection, all_files, disk)
    /\ ingest_log' = [i \in 1..Len(all_files) |-> FileSteps(disk[all_files[i].file_name])]
    /\ UNCHANGED <<disk, pipe, pydantic, resp>>
    \* the batch runs as a process of its own (__main__): the embedding model
    \* it loads is not the server's
    /\ UNCHANGED models

----------------------------------------------------------------------------
(* Python values, as json.loads returns them and as the schema holds them *)

None == [t |-> "None"]
PyStrVal(s) == [t |-> "str", v |-> s]
PyInt(n) == [t |-> "int", v |-> n]
\* a list: v is the sequence of its items
PyList(items) == [t |-> "list", v |-> items]
\* a dict: v is the sequence of its [k, v] pairs in insertion order
PyDict(pairs) == [t |-> "dict", v |-> pairs]

\* bool(val), as "if val:" takes it
Truthy(val) ==
    CASE val.t = "None" -> FALSE
      [] val.t = "str"  -> val.v # ""
      [] val.t = "int"  -> val.v # 0
      [] val.t = "list" -> val.v # <<>>
      [] val.t = "dict" -> val.v # <<>>
      [] OTHER -> TRUE

\* d.get(key)
DictGet(d, key) ==
    IF \E i \in 1..Len(d.v) : d.v[i].k = key
    THEN d.v[CHOOSE i \in 1..Len(d.v) : d.v[i].k = key].v
    ELSE None

\* d[key] = val
DictSet(d, key, val) ==
    IF \E i \in 1..Len(d.v) : d.v[i].k = key
    THEN PyDict([i \in 1..Len(d.v) |->
                    IF d.v[i].k = key THEN [k |-> key, v |-> val] ELSE d.v[i]])
    ELSE PyDict(Append(d.v, [k |-> key, v |-> val]))

RECURSIVE PyRepr(_)
\* repr(val), for strings without quotes or escapes
PyRepr(val) ==
    CASE val.t = "None" -> "None"
      [] val.t = "str"  -> "'" \o val.v \o "'"
      [] val.t = "int"  -> IntStr(val.v)
      [] val.t = "list" ->
            "[" \o Join(", ", [i \in 1..Len(val.v) |-> PyRepr(val.v[i])]) \o "]"
      [] val.t = "dict" ->
            "{" \o Join(", ", [i \in 1..Len(val.v) |->
                                  "'" \o val.v[i].k \o "': " \o PyRepr(val.v[i].v)])
                \o "}"

\* str(val)
PyStr(val) == IF val.t = "str" THEN val.v ELSE PyRepr(val)

----------------------------------------------------------------------------
(* schemas.py: pydantic's validation of PaymentTerms and ContractSchema *)

\* What a failed validation raises.
Invalid == [t |-> "ValidationError"]

\* Optional[str]: pydantic 1 turns an int into its str, pydantic 2 rejects it.
ValidateOptStr(val, version) ==
    CASE val.t = "None" -> None
      [] val.t = "str"  -> val
      [] val.t = "int"  -> IF version = 1 THEN PyStrVal(IntStr(val.v)) ELSE Invalid
      [] OTHER -> Invalid

IsDigits(s) ==
    /\ Len(s) > 0
    /\ \A i \in 1..Len(s) : Contains(SubSeq(s, i, i), Digits)

RECURSIVE ParseInt(_)
ParseInt(s) ==
    IF Len(s) = 0 THEN 0
    ELSE 10 * ParseInt(SubSeq(s, 1, Len(s) - 1))
           + (CHOOSE d \in 0..9 : SubSeq(Digits, d + 1, d + 1) = SubSeq(s, Len(s), Len(s)))

\* Optional[int]: an int, or a str of digits, which pydantic parses.
ValidateOptInt(val) ==
    CASE val.t = "None" -> None
      [] val.t = "int"  -> val
      [] val.t = "str"  -> IF IsDigits(val.v) THEN PyInt(ParseInt(val.v)) ELSE Invalid
      [] OTHER -> Invalid

\* Optional[PaymentTerms]: a mapping whose two fields validate; keys the
\* model does not declare are ignored.
PaymentTerms(val, version) ==
    CASE val.t = "None" -> None
      [] val.t = "dict" ->
            LET description == ValidateOptStr(DictGet(val, "description"), version)
                due_date == ValidateOptStr(DictGet(val, "due_date"), version)
            IN  IF Invalid \in {description, due_date} THEN Invalid
                ELSE [t |-> "PaymentTerms",
                      v |-> [description |-> description, due_date |-> due_date]]
      [] OTHER -> Invalid

string_fields ==
    <<"parties", "effective_date", "termination_clause",
      "confidentiality_clause", "governing_law", "notes">>

\* ContractSchema(**data): every declared field validated, absent ones None;
\* one invalid field fails the whole construction.
ContractSchema(data, version) ==
    LET rec ==
          [doc_id |-> ValidateOptStr(DictGet(data, "doc_id"), version),
           parties |-> ValidateOptStr(DictGet(data, "parties"), version),
           effective_date |-> ValidateOptStr(DictGet(data, "effective_date"), version),
           termination_clause |->
               ValidateOptStr(DictGet(data, "termination_clause"), version),
           confidentiality_clause |->
               ValidateOptStr(DictGet(data, "confidentiality_clause"), version),
           governing_law |-> ValidateOptStr(DictGet(data, "governing_law"), version),
           payment_terms |-> PaymentTerms(DictGet(data, "payment_terms"), version),
           risk_score |-> ValidateOptInt(DictGet(data, "risk_score")),
           notes |-> ValidateOptStr(DictGet(data, "notes"), version)]
    IN  IF \E f \in DOMAIN rec : rec[f] = Invalid THEN Invalid ELSE rec

\* ContractSchema(doc_id=file_name, notes=notes)
SchemaWithNotes(file_name, notes) ==
    [doc_id |-> PyStrVal(file_name), parties |-> None, effective_date |-> None,
     termination_clause |-> None, confidentiality_clause |-> None,
     governing_law |-> None, payment_terms |-> None, risk_score |-> None,
     notes |-> PyStrVal(notes)]

----------------------------------------------------------------------------
(* The generated text and its cleaning (contract_analyzer.py, rag_service.py) *)

Anchor == "<|assistant|>"

RECURSIVE RFind(_, _, _)
\* the last index <= i at which sep occurs in text, 0 if none
RFind(text, sep, i) ==
    IF i < 1 THEN 0
    ELSE IF SubSeq(text, i, i + Len(sep) - 1) = sep THEN i
    ELSE RFind(text, sep, i - 1)

\* text.split(sep)[-1]
SplitLast(text, sep) ==
    LET i == RFind(text, sep, Len(text) - Len(sep) + 1)
    IN  IF i = 0 THEN text ELSE SubSeq(text, i + Len(sep), Len(text))

Whitespace == {" ", "\n", "\t", "\r"}

RECURSIVE Strip(_)
\* s.strip()
Strip(s) ==
    IF Len(s) = 0 THEN s
    ELSE IF SubSeq(s, 1, 1) \in Whitespace THEN Strip(SubSeq(s, 2, Len(s)))
    ELSE IF SubSeq(s, Len(s), Len(s)) \in Whitespace THEN Strip(SubSeq(s, 1, Len(s) - 1))
    ELSE s

RECURSIVE Remove(_, _)
\* s.replace(old, "")
Remove(s, old) ==
    IF Len(s) < Len(old) THEN s
    ELSE IF SubSeq(s, 1, Len(old)) = old THEN Remove(SubSeq(s, Len(old) + 1, Len(s)), old)
    ELSE SubSeq(s, 1, 1) \o Remove(SubSeq(s, 2, Len(s)), old)

\* The pipeline returns the prompt followed by what the model wrote.
GeneratedText(prompt, completion) == prompt \o completion

\* The code-fence marker of three backquotes; the model writes ~ for the
\* backquote, which the TLA+ lexer does not read inside a string.
Fence == "~~~"

\* response = generated_text.split("<|assistant|>")[-1].strip()
\* then the markers Fence + "json" and Fence removed, and strip() again
CleanResponse(generated_text) ==
    Strip(Remove(Remove(Strip(SplitLast(generated_text, Anchor)), Fence \o "json"), Fence))

----------------------------------------------------------------------------
(* contract_analyzer.py: the smart context *)

TopButOne(chunks, limit) == SubSeq(chunks, 1, Min(limit - 1, Len(chunks)))

\* chunks[:limit]
Top(chunks, limit) == SubSeq(chunks, 1, Min(limit, Len(chunks)))

GetAllChunks(chunks, limit) == Join("\n...\n", chunks)

\* "\n...\n".join(chunks[:limit])
get_top_chunks(chunks, limit) == Join("\n...\n", Top(chunks, limit))

\* The buckets the loop over zip(documents, metadatas) fills: each holds the
\* documents of the fetched entries that pass its test, in fetched order.
relevant_sections(fetched) ==
    LET tags(e) == e.metadata.clause_types
        Bucket(all, test(_)) ==
            LET kept == SelectSeq(all, test)
            IN  [i \in 1..Len(kept) |-> kept[i].document]
    IN  [parties |-> Bucket(fetched, LAMBDA e : Contains("parties", tags(e))),
         effective_date |->
             Bucket(fetched, LAMBDA e : \/ Contains("effective_date", tags(e))
                                        \/ Contains("renewal", tags(e))),
         termination |-> Bucket(fetched, LAMBDA e : Contains("termination", tags(e))),
         governing_law |-> Bucket(fetched, LAMBDA e : Contains("governing_law", tags(e))),
         confidentiality |->
             Bucket(fetched, LAMBDA e : Contains("confidentiality", tags(e))),
         payment_terms |-> Bucket(fetched, LAMBDA e : Contains("payment_terms", tags(e))),
         liability |->
             Bucket(fetched, LAMBDA e : \/ Contains("liability", tags(e))
                                        \/ Contains("restrictive_covenants", tags(e))
                                        \/ Contains("license_ip", tags(e))),
         general |-> Bucket(fetched, LAMBDA e : e.metadata.chunk_index < 3)]

context_parts(fetched) ==
    LET rs == relevant_sections(fetched)
    IN  << "--- INTRO ---\n" \o get_top_chunks(rs.general, 3),
           "--- PARTIES ---\n" \o get_top_chunks(rs.parties, 2),
           "--- DATES ---\n" \o get_top_chunks(rs.effective_date, 2),
           "--- TERMINATION ---\n" \o get_top_chunks(rs.termination, 2),
           "--- LAW ---\n" \o get_top_chunks(rs.governing_law, 2),
           "--- PAYMENT ---\n" \o get_top_chunks(rs.payment_terms, 2),
           "--- RISK FACTORS (Liability/IP/Restrictions) ---\n"
               \o get_top_chunks(rs.liability, 3) >>

full_context(parts) == Join("\n\n", parts)

UncutContext(full) == full

\* context_text = full_context[:6000]
context_text(full) == Slice(full, 6000)

AnalyzePrompt(file_name, text) ==
    "<|system|>\nYou are a legal expert. Analyze the following contract text segments and extract the required fields in STRICT JSON format.\n"
    \o "Do not include any markdown formatting or explanation. Just the JSON.\nFields required:\n"
    \o "- doc_id: \"" \o file_name \o "\"\n- parties: Who are the parties?\n- effective_date: When does it start?\n"
    \o "- termination_clause: Summary of termination rights.\n- confidentiality_clause: Summary of confidentiality obligations.\n"
    \o "- governing_law: Which jurisdiction?\n- payment_terms: { \"description\": \"...\", \"due_date\": \"...\" }\n"
    \o "- risk_score: Integer 0-100 based on risk (high liability, strict termination = high risk).\n"
    \o "- notes: Any other key observations.\n\nIf a field is not found, use null.\n<|end|>\n<|user|>\nContract Segments:\n"
    \o text \o "\n<|end|>\n<|assistant|>"

----------------------------------------------------------------------------
(* contract_analyzer.py: coercion of the model's response *)

\* ", ".join([str(item) for item in val])
JoinItems(val) == Join(", ", [i \in 1..Len(val.v) |-> PyStr(val.v[i])])

\* ", ".join([f"{k}: {v}" for k, v in val.items()])
JoinPairs(val) ==
    Join(", ", [i \in 1..Len(val.v) |-> val.v[i].k \o ": " \o PyStr(val.v[i].v)])

\* One pass of the loop over string_fields.
RepairField(data, field) ==
    LET val == DictGet(data, field)
    IN  IF Truthy(val)
        THEN IF val.t = "list" THEN DictSet(data, field, PyStrVal(JoinItems(val)))
             ELSE IF val.t = "dict" THEN DictSet(data, field, PyStrVal(JoinPairs(val)))
             ELSE data
        ELSE data

RECURSIVE RepairStrings(_, _)
\* for field in string_fields: ...
RepairStrings(data, fields) ==
    IF fields = <<>> THEN data
    ELSE RepairStrings(RepairField(data, fields[1]), Tail(fields))

\* The fix for payment_terms.
RepairPaymentTerms(data) ==
    LET pt == DictGet(data, "payment_terms")
    IN  IF Truthy(pt)
        THEN IF pt.t = "str"
             THEN DictSet(data, "payment_terms",
                          PyDict(<<[k |-> "description", v |-> pt]>>))
             ELSE IF pt.t = "list"
             THEN DictSet(data, "payment_terms",
                          PyDict(<<[k |-> "description", v |-> PyStrVal(JoinItems(pt))]>>))
             ELSE data
        ELSE data

\* What json.loads raises on text that is not JSON.
JSONDecodeError == [t |-> "JSONDecodeError"]

ParseFailed(file_name, response) ==
    SchemaWithNotes(file_name,
                    "Failed to parse analysis result. Raw output: " \o Slice(response, 100))

\* str(e) of the caught exception is not modelled beyond its kind.
ValidationFailed(file_name, what) ==
    SchemaWithNotes(file_name, "Validation error: " \o what)

\* The statements of the try block after json.loads: data.get on a value that
\* is no dict raises AttributeError, a field pydantic rejects raises
\* ValidationError; otherwise the record is returned.
Construct(loaded, version) ==
    IF loaded.t # "dict"
    THEN [raised |-> TRUE,
          value |-> "'" \o loaded.t \o "' object has no attribute 'get'"]
    ELSE LET data == RepairPaymentTerms(RepairStrings(loaded, string_fields))
             made == ContractSchema(data, version)
         IN  IF made = Invalid
             THEN [raised |-> TRUE, value |-> "validation errors for ContractSchema"]
             ELSE [raised |-> FALSE, value |-> made]

\* What leaves analyze when an exception is not caught.
Raised(what) == [t |-> "raised", v |-> what]

NoExceptClause(file_name, outcome) ==
    IF outcome.raised THEN Raised(outcome.value) ELSE outcome.value

\* except Exception as e: return ContractSchema(doc_id=file_name, notes=...)
ExceptException(file_name, outcome) ==
    IF outcome.raised THEN ValidationFailed(file_name, outcome.value) ELSE outcome.value

\* The try block of analyze: response is the cleaned text and loaded what
\* json.loads makes of it.
Coerce(file_name, response, loaded, version) ==
    IF loaded = JSONDecodeError THEN ParseFailed(file_name, response)
    ELSE ExceptException(file_name, Construct(loaded, version))

AlwaysLoaded(p) == TRUE

\* if self.pipe:
PipeLoaded(p) == p

LLMNotLoaded(file_name) == SchemaWithNotes(file_name, "LLM not loaded.")

\* ContractAnalyzer.analyze(file_name), given the entries collection.get
\* returned (fetched, in the order returned) and, should the model be asked,
\* what it writes (out.completion) and what json.loads makes of the cleaned
\* response (out.loads).
analyze(file_name, fetched, out, loaded_pipe, version) ==
    LET base == [NoResp EXCEPT !.op = "analyze", !.arg = file_name,
                               !.fetched = [i \in 1..Len(fetched) |-> fetched[i].id]]
    IN  IF fetched = <<>>
        THEN [base EXCEPT !.result = SchemaWithNotes(file_name, "No content found.")]
        ELSE LET parts == context_parts(fetched)
                 full == full_context(parts)
                 text == context_text(full)
                 prompt == AnalyzePrompt(file_name, text)
                 built == [base EXCEPT !.context_parts = parts,
                                       !.context_text = text]
             IN  IF PipeLoaded(loaded_pipe)
                 THEN LET response == CleanResponse(GeneratedText(prompt, out.completion))
                      IN  [built EXCEPT
                              !.prompts = <<[prompt |-> prompt, max_new_tokens |-> 500]>>,
                              !.loaded = out.loads,
                              !.result = Coerce(file_name, response, out.loads, version)]
                 ELSE [built EXCEPT !.result = LLMNotLoaded(file_name)]

----------------------------------------------------------------------------
(* rag_service.py: retrieval and answer_question *)

\* DISTANCE_THRESHOLD = 1.0; distances are counted in tenths
DISTANCE_THRESHOLD == 10

\* retrieve(query, top_k=3)
top_k == 3

\* The distances the store may report, in tenths.
Distances == {2, 9, 10, 13}

\* retrieve(question): the store answers with the min(top_k, count) nearest
\* entries, nearest first; which entries and at what distances is the
\* embedding's and the store's doing.
Retrieve(coll) ==
    LET n == Min(top_k, Len(coll))
        picks == {p \in [1..n -> 1..Len(coll)] : \A i, j \in 1..n : i # j => p[i] # p[j]}
        dists == {d \in [1..n -> Distances] : \A i \in 1..(n - 1) : d[i] <= d[i + 1]}
    IN  {[i \in 1..n |-> [text |-> coll[p[i]].document,
                          metadata |-> coll[p[i]].metadata,
                          score |-> d[i]]] : p \in picks, d \in dists}

KeepUpToThreshold(docs) == SelectSeq(docs, LAMBDA d : d.score <= DISTANCE_THRESHOLD)

\* relevant_docs = [d for d in docs if d['score'] < DISTANCE_THRESHOLD]
relevant_docs(docs) == SelectSeq(docs, LAMBDA d : d.score < DISTANCE_THRESHOLD)

QAContext(relevant) ==
    Join("\n\n", [i \in 1..Len(relevant) |->
                     "Source: " \o relevant[i].metadata.source
                         \o "\nContent: " \o relevant[i].text])

QAPrompt(context, question) ==
    "<|system|>\nYou are a helpful compliance assistant. Answer the question based ONLY on the provided context. \n"
    \o "If the answer is not in the context, say \"No relevant info found.\"\n"
    \o "Include citations to the source documents.\n<|end|>\n<|user|>\nContext:\n"
    \o context \o "\n\nQuestion: " \o question \o "\n<|end|>\n<|assistant|>"

\* list(set(...)): the sources without repetition, in one of the orders a
\* set may be listed in.
Citations(relevant) ==
    LET sources == {relevant[i].metadata.source : i \in 1..Len(relevant)}
        n == Cardinality(sources)
    IN  {c \in [1..n -> sources] : \A i, j \in 1..n : i # j => c[i] # c[j]}

NeverShortCircuits(relevant) == FALSE

\* if not relevant_docs:
NoneRelevant(relevant) == relevant = <<>>

NoRelevantInfo ==
    [answer |-> "No relevant info found.", citations |-> <<>>, similarity_scores |-> <<>>]

\* RAGService.answer_question(question), given what retrieve returned (docs),
\* what the model writes if asked (completion) and the listing of the
\* citation set (citations).
answer_question(question, docs, completion, citations, loaded_pipe) ==
    LET base == [NoResp EXCEPT !.op = "answer_question", !.arg = question,
                               !.retrieved = docs]
        relevant == relevant_docs(docs)
    IN  IF NoneRelevant(relevant)
        THEN [base EXCEPT !.result = NoRelevantInfo]
        ELSE LET context == QAContext(relevant)
                 prompt == QAPrompt(context, question)
                 scores == [i \in 1..Len(relevant) |-> relevant[i].score]
                 asked == [base EXCEPT !.context_text = context]
             IN  IF PipeLoaded(loaded_pipe)
                 THEN [asked EXCEPT
                          !.prompts = <<[prompt |-> prompt, max_new_tokens |-> 900]>>,
                          !.result =
                              [answer |->
                                   Strip(SplitLast(GeneratedText(prompt, completion), Anchor)),
                               citations |-> citations,
                               similarity_scores |-> scores]]
                 ELSE [asked EXCEPT
                          !.result =
                              [answer |-> "LLM not loaded. Cannot generate answer.",
                               citations |-> citations,
                               similarity_scores |-> scores]]

----------------------------------------------------------------------------
(* The store's answers and the model's answers *)

Orderings(entries) ==
    LET n == Len(entries)
        perms == {p \in [1..n -> 1..n] : \A i, j \in 1..n : i # j => p[i] # p[j]}
    IN  {[i \in 1..n |-> entries[p[i]]] : p \in perms}

\* collection.get(where={"source": file_name}): every entry of that source;
\* the store promises no order, so any order may come back.
CollectionGet(coll, file_name) ==
    Orderings(SelectSeq(coll, LAMBDA e : e.metadata.source = file_name))

RECURSIVE Dumps(_)
\* The JSON text of a value, as a model that answers in JSON writes it.
Dumps(val) ==
    CASE val.t = "None" -> "null"
      [] val.t = "str"  -> "\"" \o val.v \o "\""
      [] val.t = "int"  -> IntStr(val.v)
      [] val.t = "list" ->
            "[" \o Join(", ", [i \in 1..Len(val.v) |-> Dumps(val.v[i])]) \o "]"
      [] val.t = "dict" ->
            "{" \o Join(", ", [i \in 1..Len(val.v) |->
                                  "\"" \o val.v[i].k \o "\": " \o Dumps(val.v[i].v)])
                \o "}"

\* A model answer that is the JSON of val, bare or inside a code fence.
JsonOutput(val, fenced) ==
    [completion |-> IF fenced THEN " " \o Fence \o "json\n" \o Dumps(val) \o "\n" \o Fence
                    ELSE " " \o Dumps(val) \o "\n",
     loads |-> val]

\* A model answer that json.loads rejects.
BadOutput(text) == [completion |-> text, loads |-> JSONDecodeError]

Pairs(ks, vs) == [i \in 1..Len(ks) |-> [k |-> ks[i], v |-> vs[i]]]

\* The answer of the model where the specification does not vary it: the
\* record asked for, inside a code fence.
FewOutputs ==
    { JsonOutput(PyDict(Pairs(<<"doc_id", "termination_clause", "risk_score">>,
                              <<PyStrVal(ContractFile),
                                PyStrVal("30 days notice"), PyInt(40)>>)), TRUE) }

\* items in a list or a mapping the model writes
MaxItems == 2

ItemValues == {PyStrVal("Acme"), PyInt(7)}

ListValues == {PyList(items) : items \in SeqsUpTo(ItemValues, MaxItems)}

ItemKeys == <<"buyer", "seller", "agent">>

\* Mappings of up to MaxItems keys, taken in ItemKeys order.
DictValues ==
    {PyDict(Pairs(SubSeq(ItemKeys, 1, Len(vs)), vs)) :
        vs \in SeqsUpTo(ItemValues, Min(MaxItems, Len(ItemKeys)))}

\* Absent marks a key the model's JSON object does not have.
Absent == [t |-> "absent"]

DocIdValues == {Absent, None, PyStrVal(ContractFile), PyStrVal("other.pdf")}

StringFieldValues ==
    {Absent, None, PyStrVal(""), PyStrVal("Acme and Bob"), PyInt(7)}
        \cup ListValues \cup DictValues

PaymentTermsValues ==
    {Absent, None, PyStrVal(""), PyStrVal("net 30"), PyInt(7),
     PyDict(Pairs(<<"description", "due_date">>, <<PyStrVal("net 30"), None>>)),
     PyDict(Pairs(<<"description">>, <<PyList(<<PyStrVal("net 30")>>)>>))}
        \cup ListValues

RiskScoreValues == {PyInt(40), PyStrVal("high")}

NotesValues == {Absent, PyList(<<PyStrVal("renews yearly"), PyStrVal("no cap")>>)}

\* The JSON object with the keys that are not Absent.
ObjectOf(ks, vs) ==
    PyDict(SelectSeq(Pairs(ks, vs), LAMBDA p : p.v # Absent))

JsonObjects ==
    {ObjectOf(<<"doc_id", "parties", "payment_terms", "risk_score", "notes">>,
              <<d, p, pt, r, n>>) :
        d \in DocIdValues, p \in StringFieldValues, pt \in PaymentTermsValues,
        r \in RiskScoreValues, n \in NotesValues}

\* The answers of the model in the coercion specification: JSON objects of
\* many shapes, JSON that is no object, and text json.loads rejects (empty,
\* prose, JSON cut short, a long line).
ManyOutputs ==
    {JsonOutput(o, FALSE) : o \in JsonObjects}
        \cup {JsonOutput(v, TRUE) :
                 v \in {PyList(<<PyInt(7)>>), PyStrVal("Acme"), PyInt(7), None}}
        \cup {BadOutput(""), BadOutput(" I cannot read this contract."),
              BadOutput(" {\"doc_id\": \"contract.pdf\", \"parties\": [\"Acme"),
              BadOutput(Repeat("{", 150))}

----------------------------------------------------------------------------
(* embeddings: the lazily loaded embedding model *)

\* _model = None
NoModel == 0

\* get_embedding_model run with no other thread in it: the model it leaves
\* in _model, built when there was none.
get_embedding_model(current, built) ==
    IF current = NoModel THEN built + 1 ELSE current

Workers == 1..MaxWorkers

\* A thread with no request: pc is where it stands, new the model it has
\* built and not yet stored, got the model get_embedding_model last
\* returned to it.
IdleWorker == [pc |-> "idle", new |-> NoModel, got |-> NoModel]

\* A request that embeds its question reaches get_embedding_model.
EnterEmbed(w) ==
    /\ worker[w].pc = "idle"
    /\ worker' = [worker EXCEPT ![w].pc = "check"]
    /\ UNCHANGED <<disk, collection, pipe, pydantic, ingest_log, resp,
                   _model, constructed, llm_loads>>

\* if _model is None:
CheckModel(w) ==
    /\ worker[w].pc = "check"
    /\ worker' = [worker EXCEPT
                     ![w].pc = IF _model = NoModel THEN "construct" ELSE "return"]
    /\ UNCHANGED <<disk, collection, pipe, pydantic, ingest_log, resp,
                   _model, constructed, llm_loads>>

\* SentenceTransformer(MODEL_NAME)
ConstructModel(w) ==
    /\ worker[w].pc = "construct"
    /\ constructed' = constructed + 1
    /\ worker' = [worker EXCEPT ![w].pc = "assign", ![w].new = constructed + 1]
    /\ UNCHANGED <<disk, collection, pipe, pydantic, ingest_log, resp,
                   _model, llm_loads>>

\* _model = <the model built>
AssignModel(w) ==
    /\ worker[w].pc = "assign"
    /\ _model' = worker[w].new
    /\ worker' = [worker EXCEPT ![w].pc = "return", ![w].new = NoModel]
    /\ UNCHANGED <<disk, collection, pipe, pydantic, ingest_log, resp,
                   constructed, llm_loads>>

\* return _model
ReturnModel(w) ==
    /\ worker[w].pc = "return"
    /\ worker' = [worker EXCEPT ![w].pc = "encode", ![w].got = _model]
    /\ UNCHANGED <<disk, collection, pipe, pydantic, ingest_log, resp,
                   _model, constructed, llm_loads>>

\* model.encode(texts, ...): the thread finishes embed_texts; the rest of
\* its request writes nothing the threads share.
Encode(w) ==
    /\ worker[w].pc = "encode"
    /\ worker' = [worker EXCEPT ![w].pc = "idle"]
    /\ UNCHANGED <<disk, collection, pipe, pydantic, ingest_log, resp,
                   _model, constructed, llm_loads>>

----------------------------------------------------------------------------
(* The service: requests and their answers *)

FileNames == {PolicyFile, ContractFile, MissingFile}

\* POST /contract/analyze
Analyze(outputs) ==
    /\ resp.op = "none"
    /\ \E file_name \in FileNames :
         \E fetched \in CollectionGet(collection, file_name) :
           \E out \in outputs :
             resp' = analyze(file_name, fetched, out, pipe, pydantic)
    /\ UNCHANGED <<disk, collection, pipe, pydantic, ingest_log>>
    /\ UNCHANGED models

Questions == {"How much notice ends the agreement?"}

\* What the model writes when asked a question.
Answers == {" Thirty days, see contract.pdf.\n", " No relevant info found."}

\* POST /query
AnswerQuestion ==
    /\ resp.op = "none"
    /\ \E question \in Questions :
         \E docs \in Retrieve(collection) :
           \E completion \in Answers :
             \E citations \in Citations(relevant_docs(docs)) :
               resp' = answer_question(question, docs, completion, citations, pipe)
    \* retrieve embeds the question: embed_texts -> get_embedding_model
    /\ _model' = get_embedding_model(_model, constructed)
    /\ constructed' = IF _model = NoModel THEN constructed + 1 ELSE constructed
    /\ UNCHANGED <<disk, collection, pipe, pydantic, ingest_log, llm_loads, worker>>

\* The handler returns its result to the caller.
Return ==
    /\ resp.op # "none"
    /\ resp' = NoResp
    /\ UNCHANGED <<disk, collection, pipe, pydantic, ingest_log>>
    /\ UNCHANGED models

\* After lifespan built RAGService: the collection opened (empty before the
\* first ingestion), pipe set by the one run of _load_llm or left None when
\* loading failed, the embedding model not yet loaded, every thread idle.
InitService(disks, versions) ==
    /\ disk \in disks
    /\ collection = <<>>
    /\ pipe \in BOOLEAN
    /\ pydantic \in versions
    /\ ingest_log = <<>>
    /\ resp = NoResp
    /\ _model = NoModel
    /\ constructed = 0
    /\ llm_loads = 1
    /\ worker = [w \in Workers |-> IdleWorker]

Init == InitService(Disks, {2})

Next ==
    \/ ingest_documents
    \/ Analyze(FewOutputs)
    \/ Return

Spec == Init /\ [][Next]_vars

\* The tagging specification: ingestion over texts built from fragments.
InitTag == InitService(TagDisks, {2})

NextTag == ingest_documents

SpecTag == InitTag /\ [][NextTag]_vars

\* The coercion specification: one corpus, the model's answers varied, under
\* either major version of pydantic.
InitCoerce == InitService({OneChunkDisk}, {1, 2})

NextCoerce ==
    \/ ingest_documents
    \/ Analyze(ManyOutputs)
    \/ Return

SpecCoerce == InitCoerce /\ [][NextCoerce]_vars

\* The question-answering specification: one corpus, retrieval varied.
InitQA == InitService({FixedDisk}, {2})

NextQA ==
    \/ ingest_documents
    \/ Analyze(FewOutputs)
    \/ AnswerQuestion
    \/ Return

SpecQA == InitQA /\ [][NextQA]_vars

\* The loading specification: requests that embed a question, answered at
\* the same time by the threads of the pool, their steps interleaved.
InitLoad == InitService({FixedDisk}, {2})

NextLoad ==
    \E w \in Workers :
        \/ EnterEmbed(w)
        \/ CheckModel(w)
        \/ ConstructModel(w)
        \/ AssignModel(w)
        \/ ReturnModel(w)
        \/ Encode(w)

SpecLoad == InitLoad /\ [][NextLoad]_vars

----------------------------------------------------------------------------
(* Vocabulary of the properties *)

\* needle occurs in hay: hay is some prefix, then needle, then the rest.
Occurs(needle, hay) ==
    \E a \in 0..(Len(hay) - Len(needle)) :
        SubSeq(hay, a + 1, a + Len(needle)) = needle

RECURSIVE TagSet(_)
\* The labels of a comma-separated tag string.
TagSet(tags) ==
    IF \E i \in 1..Len(tags) : SubSeq(tags, i, i) = ","
    THEN LET i == CHOOSE k \in 1..Len(tags) :
                      /\ SubSeq(tags, k, k) = ","
                      /\ \A j \in 1..(k - 1) : SubSeq(tags, j, j) # ","
         IN  {SubSeq(tags, 1, i - 1)} \cup TagSet(SubSeq(tags, i + 1, Len(tags)))
    ELSE {tags}

\* The labels of every tag string ingestion can store, tabulated once.
StoredTagSets == [tags \in {clause_tags[d] : d \in DOMAIN clause_tags} |-> TagSet(tags)]

\* The labels of a stored entry.
TagsOf(e) == StoredTagSets[e.metadata.clause_types]

ClauseNames == {CLAUSE_KEYWORDS[i].clause : i \in 1..Len(CLAUSE_KEYWORDS)}

Triggers(clause) ==
    LET i == CHOOSE k \in 1..Len(CLAUSE_KEYWORDS) : CLAUSE_KEYWORDS[k].clause = clause
    IN  {CLAUSE_KEYWORDS[i].keywords[k] : k \in 1..Len(CLAUSE_KEYWORDS[i].keywords)}

\* The clause types with a trigger phrase in the lower-cased text.
TriggeredClauses(text) ==
    LET lowered == Lower(text)
    IN  {c \in ClauseNames : \E kw \in Triggers(c) : Occurs(kw, lowered)}

SchemaFields ==
    {"doc_id", "parties", "effective_date", "termination_clause",
     "confidentiality_clause", "governing_law", "payment_terms", "risk_score", "notes"}

IsOptStr(val) == val = None \/ (DOMAIN val = {"t", "v"} /\ val.t = "str")

\* r is a ContractSchema record: every field None or of its declared type.
IsContractSchema(r) ==
    /\ DOMAIN r = SchemaFields
    /\ \A f \in SchemaFields \ {"payment_terms", "risk_score"} : IsOptStr(r[f])
    /\ \/ r.payment_terms = None
       \/ /\ r.payment_terms.t = "PaymentTerms"
          /\ IsOptStr(r.payment_terms.v.description)
          /\ IsOptStr(r.payment_terms.v.due_date)
    /\ r.risk_score = None \/ r.risk_score.t = "int"

\* The request answered is an analysis for which the model was asked.
Extracted == resp.op = "analyze" /\ resp.prompts # <<>>

\* The stored entry with the given id.
EntryOf(id) == collection[CHOOSE i \in 1..Len(collection) : collection[i].id = id]

\* The entries collection.get returned to the analysis, in the order returned.
Fetched == [i \in 1..Len(resp.fetched) |-> EntryOf(resp.fetched[i])]

SectionHeaders ==
    <<"--- INTRO ---\n", "--- PARTIES ---\n", "--- DATES ---\n",
      "--- TERMINATION ---\n", "--- LAW ---\n", "--- PAYMENT ---\n",
      "--- RISK FACTORS (Liability/IP/Restrictions) ---\n">>

\* The clause types that put a chunk into section k (none for the intro).
SectionTags ==
    <<{}, {"parties"}, {"effective_date", "renewal"}, {"termination"},
      {"governing_law"}, {"payment_terms"},
      {"liability", "restrictive_covenants", "license_ip"}>>

SectionLimits == <<3, 2, 2, 2, 2, 2, 3>>

InSection(k, e) ==
    IF k = 1 THEN e.metadata.chunk_index < 3
    ELSE TagsOf(e) \cap SectionTags[k] # {}

\* Section k as it is to read when entries are taken in the given order.
SectionFrom(k, entries) ==
    LET members == SelectSeq(entries, LAMBDA e : InSection(k, e))
        n == Min(SectionLimits[k], Len(members))
    IN  SectionHeaders[k] \o Join("\n...\n", [i \in 1..n |-> members[i].document])

Ascending(entries) ==
    \A i, j \in 1..Len(entries) :
        i < j => entries[i].metadata.chunk_index < entries[j].metadata.chunk_index

\* The entries in ascending chunk_index.
ByChunkIndex(entries) ==
    LET n == Len(entries)
        rank(i) == Cardinality({j \in 1..n :
                        entries[j].metadata.chunk_index < entries[i].metadata.chunk_index}) + 1
    IN  [k \in 1..n |-> entries[CHOOSE i \in 1..n : rank(i) = k]]

\* Where section k starts in the joined context (characters before it).
SectionStart(k) ==
    LET RECURSIVE before(_)
        before(i) == IF i = 0 THEN 0 ELSE before(i - 1) + Len(resp.context_parts[i]) + 2
    IN  before(k - 1)

\* The part of section k that the context text holds.
SectionInContext(k) ==
    SubSeq(resp.context_text, SectionStart(k) + 1,
           Min(SectionStart(k) + Len(resp.context_parts[k]), Len(resp.context_text)))

----------------------------------------------------------------------------
(* C1: whatever the model writes, the coercion step of analyze returns a   *)
(* well-formed ContractSchema record; nothing is raised to the caller.     *)

C1_CoercionTotal == Extracted => IsContractSchema(resp.result)

\* The model wrote valid JSON that is no object, and a record came back.
C1_Witness ==
    /\ Extracted
    /\ resp.loaded.t = "list"
    /\ IsContractSchema(resp.result)
    /\ resp.result.notes # None

----------------------------------------------------------------------------
(* C2: when the model's JSON object holds a list or a mapping (of any      *)
(* size, the empty one included) in a string-typed field, and its other    *)
(* fields are valid, that field of the record is the string of the         *)
(* elements joined with ", " (mappings as "key: value" pairs).             *)

Joined(val) ==
    IF val.t = "list" THEN Join(", ", [i \in 1..Len(val.v) |-> PyStr(val.v[i])])
    ELSE Join(", ", [i \in 1..Len(val.v) |-> val.v[i].k \o ": " \o PyStr(val.v[i].v)])

\* The fields of the object other than the string fields are valid as given.
OtherFieldsValid(obj) ==
    /\ DictGet(obj, "doc_id").t \in {"None", "str"}
    /\ DictGet(obj, "risk_score").t \in {"None", "int"}
    /\ DictGet(obj, "payment_terms").t = "None"

StringFieldsRepairable(obj) ==
    \A i \in 1..Len(string_fields) :
        DictGet(obj, string_fields[i]).t \in {"None", "str", "list", "dict"}

C2_RoundTrip ==
    (/\ Extracted
     /\ resp.loaded.t = "dict"
     /\ OtherFieldsValid(resp.loaded)
     /\ StringFieldsRepairable(resp.loaded))
    => \A i \in 1..Len(string_fields) :
          LET val == DictGet(resp.loaded, string_fields[i])
          IN  val.t \in {"list", "dict"}
                => /\ IsContractSchema(resp.result)
                   /\ resp.result[string_fields[i]] = PyStrVal(Joined(val))

----------------------------------------------------------------------------
(* C3: the context text analyze builds, and places in the extraction       *)
(* prompt, is never longer than 6000 characters, whatever the chunks.      *)

\* What follows the contract segments in the extraction prompt.
PromptEnd == "\n<|end|>\n<|assistant|>"

C3_ContextWithinBudget ==
    resp.op = "analyze" =>
        /\ Len(resp.context_text) <= 6000
        /\ \A i \in 1..Len(resp.prompts) :
              LET prompt == resp.prompts[i].prompt
                  last == Len(prompt) - Len(PromptEnd)
              IN  /\ SubSeq(prompt, last + 1, Len(prompt)) = PromptEnd
                  /\ SubSeq(prompt, last - Len(resp.context_text) + 1, last)
                         = resp.context_text
                  /\ Len(prompt) <= Len(AnalyzePrompt(resp.arg, "")) + 6000

\* The sections joined were longer than the budget and the model was asked.
C3_Witness ==
    /\ Extracted
    /\ Len(Join("\n\n", resp.context_parts)) > 6000
    /\ Len(resp.context_text) = 6000

----------------------------------------------------------------------------
(* C4 *)

\* Whether a text ingestion can store holds the notice sentence, tabulated
\* once.
HoldsNotice == [d \in DOMAIN clause_tags |-> Occurs(NoticeSentence, d)]

\* The stored entries of a source whose text holds the notice sentence.
NoticeEntries(source) ==
    {i \in 1..Len(collection) :
        /\ collection[i].metadata.source = source
        /\ HoldsNotice[collection[i].document]}

Tagged(e, clause) == clause \in TagsOf(e)

\* The text of entry e is to read inside the TERMINATION section of the
\* context text.
InTerminationSection(e) ==
    LET section == SectionInContext(4)
    IN  /\ Len(section) >= Len(SectionHeaders[4])
        /\ SubSeq(section, 1, Len(SectionHeaders[4])) = SectionHeaders[4]
        /\ Occurs(e.document, SubSeq(section, Len(SectionHeaders[4]) + 1, Len(section)))

\* How many termination-tagged entries the store returned up to and
\* including the entry with this id.
TerminationRank(id) ==
    LET at == CHOOSE i \in 1..Len(resp.fetched) : resp.fetched[i] = id
    IN  Cardinality({j \in 1..at : Tagged(Fetched[j], "termination")})

\* Where the text of the termination-tagged entry of the given rank (1 or 2)
\* ends in the joined context.
TerminationChunkEnd(id) ==
    LET tagged == SelectSeq(Fetched, LAMBDA e : Tagged(e, "termination"))
        rank == TerminationRank(id)
    IN  SectionStart(4) + Len(SectionHeaders[4])
            + (IF rank = 1 THEN 0 ELSE Len(tagged[1].document) + Len("\n...\n"))
            + Len(EntryOf(id).document)

(* C4, as claimed: a chunk that holds the notice sentence is tagged        *)
(* termination, and an analysis of its document has that chunk's text      *)
(* inside the TERMINATION section of the context, wherever the chunk is in *)
(* the document and whatever the other chunks are.                         *)
C4_NoticeAlwaysInSection ==
    \A source \in FileNames : \A i \in NoticeEntries(source) :
        /\ Tagged(collection[i], "termination")
        /\ (resp.op = "analyze" /\ resp.arg = source)
              => InTerminationSection(collection[i])

(* C4, amended: a chunk that holds the notice sentence is tagged           *)
(* termination, and an analysis of its document has that chunk's text      *)
(* inside the TERMINATION section of the context when the chunk is one of  *)
(* the first two termination-tagged chunks the store returns and its text  *)
(* ends within the first 6000 characters of the joined sections.           *)
C4_NoticeInSectionWhenSelected ==
    \A source \in FileNames : \A i \in NoticeEntries(source) :
        /\ Tagged(collection[i], "termination")
        /\ (/\ resp.op = "analyze"
            /\ resp.arg = source
            /\ TerminationRank(collection[i].id) <= 2
            /\ TerminationChunkEnd(collection[i].id) <= 6000)
              => InTerminationSection(collection[i])

\* The notice chunk came back second of the termination-tagged chunks, after
\* a long one, and is in the section.
C4_Witness ==
    /\ resp.op = "analyze"
    /\ \E i \in NoticeEntries(resp.arg) :
          /\ TerminationRank(collection[i].id) = 2
          /\ TerminationChunkEnd(collection[i].id) <= 6000
          /\ SectionStart(4) > 2000
          /\ InTerminationSection(collection[i])

----------------------------------------------------------------------------
(* C5: every record analyze returns carries the requested document id as   *)
(* its doc_id, on every path: document not found, model not loaded, parse  *)
(* failure, validation failure and successful parse.                       *)

C5_DocIdCarried ==
    resp.op = "analyze" => resp.result.doc_id = PyStrVal(resp.arg)

----------------------------------------------------------------------------
(* C6: when no retrieved passage is nearer than the threshold (or none was *)
(* retrieved), answer_question returns exactly the fixed "No relevant info *)
(* found." result and asks the model nothing, loaded or not.               *)

Survivors ==
    {i \in 1..Len(resp.retrieved) : resp.retrieved[i].score < DISTANCE_THRESHOLD}

C6_ShortCircuit ==
    (resp.op = "answer_question" /\ Survivors = {})
        => /\ resp.result = [answer |-> "No relevant info found.",
                             citations |-> <<>>, similarity_scores |-> <<>>]
           /\ resp.prompts = <<>>

\* Passages were retrieved, none survived, the model was loaded.
C6_Witness ==
    /\ resp.op = "answer_question"
    /\ pipe
    /\ resp.retrieved # <<>>
    /\ Survivors = {}
    /\ resp.result.answer = "No relevant info found."
    /\ resp.prompts = <<>>

----------------------------------------------------------------------------
(* C7: a retrieved passage survives the filter of answer_question exactly  *)
(* when its distance is strictly below the threshold 1.0; the survivors    *)
(* keep their retrieval order; of distances 0.2, 0.9, 1.3 two survive.     *)

\* The k-th survivor in retrieval order.
Survivor(k) ==
    CHOOSE i \in Survivors : Cardinality({j \in Survivors : j <= i}) = k

C7_ThresholdFilter ==
    resp.op = "answer_question" =>
        LET scores == resp.result.similarity_scores
        IN  /\ Len(scores) = Cardinality(Survivors)
            /\ \A k \in 1..Len(scores) :
                  /\ scores[k] = resp.retrieved[Survivor(k)].score
                  /\ scores[k] < 10
            /\ \A i \in 1..Len(resp.retrieved) :
                  (i \in Survivors) <=>
                      Occurs("Content: " \o resp.retrieved[i].text, resp.context_text)
            /\ \A k \in 1..(Len(scores) - 1) :
                  \E a \in 1..Len(resp.context_text) :
                      /\ Occurs(resp.retrieved[Survivor(k)].text,
                                SubSeq(resp.context_text, 1, a))
                      /\ Occurs(resp.retrieved[Survivor(k + 1)].text,
                                SubSeq(resp.context_text, a + 1, Len(resp.context_text)))
            /\ [i \in 1..Len(resp.retrieved) |-> resp.retrieved[i].score] = <<2, 9, 13>>
                  => Len(scores) = 2

\* Distances 0.2, 0.9, 1.3 were retrieved and two scores came back.
C7_Witness ==
    /\ resp.op = "answer_question"
    /\ [i \in 1..Len(resp.retrieved) |-> resp.retrieved[i].score] = <<2, 9, 13>>
    /\ resp.result.similarity_scores = <<2, 9>>

----------------------------------------------------------------------------
(* C8: detect_clause_types gives a text a clause type exactly when one of  *)
(* that type's trigger phrases occurs in the lower-cased text, gives       *)
(* "general" exactly when no type matches, never gives nothing and never   *)
(* gives general beside another tag.                                       *)

C8_ClauseTagging ==
    \A i \in 1..Len(collection) :
        LET text == collection[i].document
            tags == TagSet(collection[i].metadata.clause_types)
            triggered == TriggeredClauses(text)
        IN  /\ tags # {}
            /\ tags \subseteq ClauseNames \cup {"general"}
            /\ \A c \in ClauseNames : (c \in tags) <=> (c \in triggered)
            /\ ("general" \in tags) <=> (triggered = {})
            /\ ("general" \in tags) => tags = {"general"}

\* A stored text with a termination trigger and a parties trigger, in
\* capitals, carries both labels.
C8_Witness ==
    \E i \in 1..Len(collection) :
        /\ collection[i].document = "The PARTIES shall Cancel "
        /\ collection[i].metadata.clause_types = "termination,parties"

----------------------------------------------------------------------------
(* C9 *)

(* C9, as claimed: each section of the context holds the first chunks of   *)
(* its bucket by ascending chunk_index (three for the intro and the risk   *)
(* factors, two for the others).                                           *)
C9_FirstByChunkIndex ==
    (resp.op = "analyze" /\ resp.fetched # <<>>) =>
        \A k \in 1..Len(SectionHeaders) :
            resp.context_parts[k] = SectionFrom(k, ByChunkIndex(Fetched))

(* C9, amended: each section of the context holds the first chunks of its  *)
(* bucket in the order the store returned them (three for the intro and    *)
(* the risk factors, two for the others), never re-ranked and never more;  *)
(* these are the first by ascending chunk_index whenever the store returns *)
(* the chunks in that order.                                               *)
C9_FirstInStoredOrder ==
    (resp.op = "analyze" /\ resp.fetched # <<>>) =>
        LET returned == Fetched
        IN  /\ Len(resp.context_parts) = Len(SectionHeaders)
            /\ \A k \in 1..Len(SectionHeaders) :
                  resp.context_parts[k] = SectionFrom(k, returned)
            /\ Ascending(returned) =>
                  LET sorted == ByChunkIndex(returned)
                  IN  \A k \in 1..Len(SectionHeaders) :
                          resp.context_parts[k] = SectionFrom(k, sorted)

\* The store returned four termination chunks out of chunk_index order; the
\* section holds the first two returned.
C9_Witness ==
    /\ resp.op = "analyze"
    /\ ~Ascending(Fetched)
    /\ Cardinality({i \in 1..Len(Fetched) : InSection(4, Fetched[i])}) = 4
    /\ resp.context_parts[4] = SectionFrom(4, Fetched)
    /\ resp.context_parts[4] # SectionFrom(4, ByChunkIndex(Fetched))

----------------------------------------------------------------------------
(* C10: with the model not loaded, answer_question answers retrieved       *)
(* passages with the stub "LLM not loaded. Cannot generate answer." and    *)
(* analyze returns a well-formed record whose notes read "LLM not          *)
(* loaded."; neither asks the model anything.                              *)

C10_Degraded ==
    ~pipe =>
        /\ (resp.op = "answer_question" /\ Survivors # {}) =>
              /\ resp.result.answer = "LLM not loaded. Cannot generate answer."
              /\ resp.prompts = <<>>
        /\ (resp.op = "analyze" /\ resp.fetched # <<>>) =>
              /\ IsContractSchema(resp.result)
              /\ resp.result.notes = PyStrVal("LLM not loaded.")
              /\ resp.result.doc_id = PyStrVal(resp.arg)
              /\ resp.prompts = <<>>

\* Passages survived the filter, the model was not loaded, the stub came
\* back with the citations of the survivors.
C10_Witness ==
    /\ ~pipe
    /\ resp.op = "answer_question"
    /\ Survivors # {}
    /\ resp.result.answer = "LLM not loaded. Cannot generate answer."
    /\ resp.result.citations # <<>>

----------------------------------------------------------------------------
(* C11 *)

\* The files whose pass through the loop went past extraction.
Ingested == {i \in 1..Len(ingest_log) : Len(ingest_log[i]) > 1}

\* Where a step stands in the steps logged for a file (0 when not taken).
StepAt(steps, step) ==
    IF \E k \in 1..Len(steps) : steps[k] = step
    THEN CHOOSE k \in 1..Len(steps) : steps[k] = step
    ELSE 0

----------------------------------------------------------------------------
(* C12: when the model's JSON object holds a bare string (the empty one    *)
(* included) in payment_terms, the record's payment_terms is               *)
(* {description: that string}; when it holds a list (the empty one         *)
(* included), the description is the elements joined with ", "; neither    *)
(* ends in a validation-error record.  Stated for objects whose other      *)
(* fields are valid as given.                                              *)

\* The fields of the object other than payment_terms are valid as given.
RestValid(obj) ==
    /\ DictGet(obj, "doc_id").t \in {"None", "str"}
    /\ DictGet(obj, "risk_score").t \in {"None", "int"}
    /\ \A i \in 1..Len(string_fields) :
          DictGet(obj, string_fields[i]).t \in {"None", "str"}

\* The record's payment_terms with this description and nothing else.
Described(description) ==
    [t |-> "PaymentTerms", v |-> [description |-> PyStrVal(description), due_date |-> None]]

C12_PaymentTermsRepair ==
    (/\ Extracted
     /\ resp.loaded.t = "dict"
     /\ RestValid(resp.loaded))
    => LET pt == DictGet(resp.loaded, "payment_terms")
       IN  /\ pt.t = "str" =>
                /\ IsContractSchema(resp.result)
                /\ resp.result.payment_terms = Described(pt.v)
           /\ pt.t = "list" =>
                /\ IsContractSchema(resp.result)
                /\ resp.result.payment_terms = Described(Joined(pt))

----------------------------------------------------------------------------
(* C13: however the requests that embed a question interleave, the         *)
(* embedding model is built at most once in the process and every caller   *)
(* of get_embedding_model gets that one instance; the generative model is  *)
(* loaded once, when the service is built, and by no request.              *)

C13_SingleLoad ==
    /\ constructed <= 1
    /\ \A v, w \in Workers :
          (worker[v].got # NoModel /\ worker[w].got # NoModel)
              => worker[v].got = worker[w].got
    /\ llm_loads = 1

----------------------------------------------------------------------------
(* C14: the assembled context holds the header of a section exactly when   *)
(* the section's bucket is not empty, and the headers it holds stand in    *)
(* the order intro, parties, dates, termination, law, payment, risk        *)
(* factors; an empty bucket adds nothing to the context.  Stated for       *)
(* contexts that the 6000-character cut left whole.                        *)

\* The chunks the store returned that belong to the bucket of section k.
BucketOf(k) == SelectSeq(Fetched, LAMBDA e : InSection(k, e))

\* Where the header of section k starts in the context text (0 when the
\* context does not hold it).
HeaderAt(k) ==
    LET header == SectionHeaders[k]
        starts == {a \in 1..(Len(resp.context_text) - Len(header) + 1) :
                      SubSeq(resp.context_text, a, a + Len(header) - 1) = header}
    IN  IF starts = {} THEN 0 ELSE CHOOSE a \in starts : \A b \in starts : a <= b

C14_HeaderOnlyForNonEmptyBucket ==
    (/\ resp.op = "analyze"
     /\ resp.fetched # <<>>
     /\ Len(resp.context_text) < 6000)
    => /\ \A k \in 1..Len(SectionHeaders) :
             (HeaderAt(k) > 0) <=> (BucketOf(k) # <<>>)
       /\ \A k, l \in 1..Len(SectionHeaders) :
             (k < l /\ HeaderAt(k) > 0 /\ HeaderAt(l) > 0) => HeaderAt(k) < HeaderAt(l)

====
